---- MODULE Spec2Model ----
(***************************************************************************)
(* SecureGist backend: the gist lifecycle (create, read with expiration    *)
(* and read-budget gating, delete) over the gists table and the S3 bucket. *)
(* Every request handler is split at its awaits on shared state: one       *)
(* action per SQL statement / commit and per object-store call.            *)
(***************************************************************************)
EXTENDS Integers, Sequences, FiniteSets, TLC

(* ---------------------------- bounds ---------------------------------- *)
NumIds == 2          \* uuid4 values handed out / addressed by requests
MaxReq == 3          \* requests issued in one run, handled concurrently
MaxSeqReq == 4       \* requests issued in one run, handled one at a time
MaxInflight == 2     \* requests being handled at the same time
MaxTime == 1         \* the clock runs over 0..MaxTime
MaxLog == 2          \* responses the log holds before it is cleared (LiveSpec)
MaxReadsBound == 2   \* max_reads payload values are 1..MaxReadsBound

Ids == 1..NumIds
Unknown == 0         \* a gist_id in a request path that no create returned
Keys == Ids \cup {Unknown}
Slots == 1..MaxInflight

(* An Optional[T] value is a sequence of length at most one. *)
None == <<>>
Some(x) == <<x>>

(* ----------------------- request payloads ----------------------------- *)
(* expiration_date strings: absent, not ISO-8601, naive, or with an offset *)
(* (t is the wall-clock reading, off the UTC offset written in the string) *)
NoDate == [kind |-> "none", t |-> 0, off |-> 0]
BadDate == [kind |-> "bad", t |-> 0, off |-> 0]
NaiveDate(t) == [kind |-> "naive", t |-> t, off |-> 0]
AwareDate(t, off) == [kind |-> "aware", t |-> t, off |-> off]

DateStrings ==
    {NoDate, BadDate, NaiveDate(0), AwareDate(0, 0), AwareDate(1, 1)}

(* gist_metadata documents: JSON objects, here with string values *)
Metadatas == {[iv |-> "a"], [iv |-> "b", salt |-> "c"]}

GistCreate ==
    [gist_metadata : Metadatas, expiration_date : DateStrings,
     max_reads : 1..MaxReadsBound]

(* ----------------------------- state ---------------------------------- *)
VARIABLES
    db,        \* gists table: committed rows, keyed by gist_id
    bucket,    \* keys of the objects held by the S3 bucket
    issued,    \* gist_ids generated so far (uuid4 never repeats)
    grants,    \* gist_ids returned by a 201, each with its presigned POST
    now,       \* datetime.now(timezone.utc)
    frames,    \* per in-flight request: the handler's position and locals
    hist       \* per gist_id: the responses sent for it, in order

vars == <<db, bucket, issued, grants, now, frames, hist>>

(* A handler frame: gist is the ORM object the session holds (None when the *)
(* select found no row), s3 whether the handler's call to the storage      *)
(* gateway succeeded, detail the HTTPException detail (or the exception    *)
(* nothing caught), req the request body of a create.                      *)
Idle ==
    [op |-> "idle", pc |-> "idle", gist_id |-> Unknown, gist |-> None,
     detail |-> "", s3 |-> None, req |-> None]

Frame(op, pc, id, gist, detail, s3) ==
    [op |-> op, pc |-> pc, gist_id |-> id, gist |-> gist,
     detail |-> detail, s3 |-> s3, req |-> None]

Init ==
    /\ db = <<>>
    /\ bucket = {}
    /\ issued = {}
    /\ grants = {}
    /\ now = 0
    /\ frames = [s \in Slots |-> Idle]
    /\ hist = [k \in Keys |-> <<>>]

(* --------------------------- crud.py ---------------------------------- *)
(* create_gist: datetime.fromisoformat + astimezone(utc).replace(tzinfo=None) *)
ParseOk(s) == s.kind # "bad"

(* variant: the offset dropped, the wall-clock reading kept *)
ParseExpirationKeepsWallClock(s) ==
    CASE s.kind = "none" -> None
      [] s.kind = "naive" -> Some(s.t)
      [] s.kind = "aware" -> Some(s.t)
      [] OTHER -> None

ParseExpiration(s) ==
    CASE s.kind = "none" -> None
      [] s.kind = "naive" -> Some(s.t)
      [] s.kind = "aware" -> Some(s.t - s.off)
      [] OTHER -> None

(* models.Gist row as inserted by create_gist *)
NewGist(id, payload, clock) ==
    [gist_id |-> id,
     gist_metadata |-> payload.gist_metadata,
     created_at |-> clock,
     expiration_date |-> ParseExpiration(payload.expiration_date),
     read_count |-> 0,
     max_reads |-> payload.max_reads,
     version_history |-> None]

(* The JSON column type: json.dumps on the way in, json.loads on the way   *)
(* out.  A JSON text is the sequence of the object's <<key, value>>        *)
(* members; json.loads keeps the last member of each key.                  *)
RECURSIVE JsonMembers(_, _)
JsonMembers(doc, ks) ==
    IF ks = {} THEN <<>>
    ELSE LET k == CHOOSE x \in ks : TRUE
         IN  <<<<k, doc[k]>>>> \o JsonMembers(doc, ks \ {k})

JsonDumps(doc) == JsonMembers(doc, DOMAIN doc)

(* variant: a loader that keeps the keys and loses the values *)
JsonLoadsKeysOnly(text) ==
    [k \in {text[i][1] : i \in DOMAIN text} |-> ""]

JsonLoads(text) ==
    [k \in {text[i][1] : i \in DOMAIN text} |->
        LET last == CHOOSE i \in DOMAIN text :
                        /\ text[i][1] = k
                        /\ \A j \in DOMAIN text : text[j][1] = k => j <= i
        IN  text[last][2]]

(* select(Gist).where(Gist.gist_id == gist_id) ... scalar_one_or_none():   *)
(* the ORM object loaded from the row                                      *)
get_gist(d, id) ==
    IF id \in DOMAIN d
    THEN Some([d[id] EXCEPT !.gist_metadata = JsonLoads(@)])
    ELSE None

(* db.add(gist); await db.commit(): the INSERT binds the column values *)
InsertRow(d, g) ==
    [i \in DOMAIN d \cup {g.gist_id} |->
        IF i = g.gist_id THEN [g EXCEPT !.gist_metadata = JsonDumps(@)] ELSE d[i]]

(* variant: db.delete with the commit left out *)
DeleteWithoutCommit(d, id) == d

DeleteRow(d, id) == [i \in DOMAIN d \ {id} |-> d[i]]

(* variant: delete_gist reporting the gist only when the blob went too *)
DeleteGistResultIfBlobGone(gist, s3ok) == IF s3ok THEN gist ELSE None

(* delete_gist returns the selected object whatever storage.delete returned *)
DeleteGistResult(gist, s3ok) == gist

(* the flush of gist.read_count += 1: UPDATE gists SET read_count = :v     *)
(* WHERE gist_id = :id; the ORM raises StaleDataError when no row matches  *)
UpdateMatches(d, g) == g.gist_id \in DOMAIN d

(* variant: a write that inserts the row when it is not there *)
UpdateRowUpsert(d, g) == InsertRow(d, g)

(* variant: an UPDATE with no WHERE clause *)
UpdateRowEveryRow(d, g) == [i \in DOMAIN d |-> [d[i] EXCEPT !.read_count = g.read_count]]

UpdateRow(d, g) ==
    IF g.gist_id \in DOMAIN d
    THEN [d EXCEPT ![g.gist_id].read_count = g.read_count]
    ELSE d

(* -------------------------- storage.py -------------------------------- *)
(* ok = FALSE: the boto3 call raised ClientError, which Storage catches    *)
generate_presigned_post(key, ok) == IF ok THEN Some([url |-> "post", key |-> key]) ELSE None

generate_presigned_url(key, ok) == IF ok THEN Some([url |-> "get", key |-> key]) ELSE None

StorageDelete(b, key, ok) == IF ok THEN b \ {key} ELSE b

(* ----------------------------- api.py --------------------------------- *)
(* variant: the comparison the wrong way round *)
IsExpiredReversed(g, clock) ==
    /\ g.expiration_date # None
    /\ g.expiration_date[1] > clock

(* variant: <= in place of < *)
IsExpiredNonStrict(g, clock) ==
    /\ g.expiration_date # None
    /\ g.expiration_date[1] <= clock

IsExpired(g, clock) ==
    /\ g.expiration_date # None
    /\ g.expiration_date[1] < clock

(* variant: > in place of >= *)
ReadLimitExceededOffByOne(g) == g.read_count > g.max_reads

ReadLimitExceeded(g) == g.read_count >= g.max_reads

(* variant: the counter bumped twice per read *)
IncrementReadCountTwice(g) == [g EXCEPT !.read_count = g.read_count + 2]

(* variant: the read that forgets to count *)
IncrementReadCountNot(g) == g

IncrementReadCount(g) == [g EXCEPT !.read_count = g.read_count + 1]

(* datetime.isoformat() of the stored naive datetime *)
IsoFormat(e) == IF e = None THEN NoDate ELSE NaiveDate(e[1])

(* variant: the falsy presigned_post not tested *)
CreateStatusAlwaysCreated(presigned_post) == 201

CreateStatus(presigned_post) == IF presigned_post = None THEN 500 ELSE 201

(* variant: the missing gist not tested *)
DeleteStatusAlwaysNoContent(gist) == 204

DeleteStatus(gist) == IF gist = None THEN 404 ELSE 204

(* A response as the client sees it, with the frame it was sent from. *)
Response(f, status, body) ==
    [op |-> f.op, status |-> status, detail |-> f.detail, body |-> body,
     gist |-> f.gist, s3 |-> f.s3]

GistCreateResponse(g, presigned_post) ==
    Some([gist_id |-> g.gist_id, upload_params |-> presigned_post])

GistResponse(g, download_url) ==
    Some([gist_id |-> g.gist_id,
          download_url |-> download_url,
          gist_metadata |-> g.gist_metadata,
          expiration_date |-> IsoFormat(g.expiration_date),
          read_count |-> g.read_count,
          max_reads |-> g.max_reads,
          version_history |-> g.version_history])

InFlight == {s \in Slots : frames[s] # Idle}

RECURSIVE SumLen(_, _)
SumLen(h, ks) ==
    IF ks = {} THEN 0
    ELSE LET k == CHOOSE x \in ks : TRUE IN Len(h[k]) + SumLen(h, ks \ {k})

Answered == SumLen(hist, Keys)

(* a request is accepted on the lowest free slot *)
Accepts(s, limit) ==
    /\ frames[s] = Idle
    /\ \A t \in Slots : t < s => frames[t] # Idle
    /\ Answered + Cardinality(InFlight) < limit

Reply(s, f, status, body) ==
    /\ hist' = [hist EXCEPT ![f.gist_id] = Append(@, Response(f, status, body))]
    /\ frames' = [frames EXCEPT ![s] = Idle]

(* ---------------------- POST /api/gists ------------------------------- *)
(* create_gist up to its commit and refresh.  An unparseable               *)
(* expiration_date raises ValueError in create_gist, which nothing         *)
(* catches: the framework answers 500.  uuid4 hands out an id never used   *)
(* before.                                                                 *)
(* variant: an id generator that can repeat itself *)
FreshIdRepeating == CHOOSE i \in Ids : \A j \in Ids : i <= j

FreshId == CHOOSE i \in Ids \ issued : \A j \in Ids \ issued : i <= j

CreateInsert(s, payload, limit) ==
    /\ Accepts(s, limit)
    /\ IF ~ParseOk(payload.expiration_date)
       THEN /\ Reply(s, Frame("create", "parse", Unknown, None, "ValueError", None), 500, None)
            /\ UNCHANGED <<db, issued>>
       ELSE /\ Ids \ issued # {}
            /\ LET g == NewGist(FreshId, payload, now) IN
                 /\ db' = InsertRow(db, g)
                 /\ issued' = issued \cup {g.gist_id}
                 /\ frames' = [frames EXCEPT ![s] =
                        [Frame("create", "mint_post", g.gist_id,
                               get_gist(db', g.gist_id), "", None)
                           EXCEPT !.req = Some(payload)]]
                 /\ UNCHANGED hist
    /\ UNCHANGED <<bucket, grants, now>>

(* storage.generate_presigned_post and the response *)
CreateMintPost(s, ok) ==
    LET f == [frames[s] EXCEPT !.s3 = Some(ok)]
        g == f.gist[1]
        presigned_post == generate_presigned_post(g.gist_id, ok)
        status == CreateStatus(presigned_post)
    IN  /\ f.op = "create" /\ f.pc = "mint_post"
        /\ IF status = 201
           THEN /\ Reply(s, f, 201, GistCreateResponse(g, presigned_post))
                /\ grants' = IF presigned_post = None THEN grants
                                ELSE grants \cup {g.gist_id}
           ELSE /\ Reply(s, [f EXCEPT !.detail = "Failed to generate upload URL"], status, None)
                /\ UNCHANGED grants
        /\ UNCHANGED <<db, bucket, issued, now>>

(* the client's direct upload with the presigned POST it was handed *)
Upload(id) ==
    /\ id \in grants
    /\ id \notin bucket
    /\ bucket' = bucket \cup {id}
    /\ UNCHANGED <<db, issued, grants, now, frames, hist>>

(* --------------------- GET /api/gists/{gist_id} ----------------------- *)
(* get_gist, and the 404 *)
ReadSelect(s, id, limit) ==
    /\ Accepts(s, limit)
    /\ LET gist == get_gist(db, id) IN
         IF gist = None
         THEN Reply(s, Frame("read", "select", id, None, "Gist not found", None), 404, None)
         ELSE /\ frames' = [frames EXCEPT ![s] =
                     Frame("read", "check", id, gist, "", None)]
              /\ UNCHANGED hist
    /\ UNCHANGED <<db, bucket, issued, grants, now>>

(* the expiration check, the read-count check and gist.read_count += 1 *)
ReadCheck(s) ==
    LET f == frames[s]
        g == f.gist[1]
    IN  /\ f.op = "read" /\ f.pc = "check"
        /\ frames' = [frames EXCEPT ![s] =
              IF IsExpired(g, now)
              THEN [f EXCEPT !.pc = "del_select", !.detail = "Gist expired"]
              ELSE IF ReadLimitExceeded(g)
              THEN [f EXCEPT !.pc = "del_select", !.detail = "Read limit exceeded"]
              ELSE [f EXCEPT !.pc = "commit", !.gist = Some(IncrementReadCount(g))]]
        /\ UNCHANGED <<db, bucket, issued, grants, now, hist>>

(* await db.commit(): the UPDATE; StaleDataError is not caught: 500 *)
ReadCommit(s) ==
    LET f == frames[s]
        g == f.gist[1]
    IN  /\ f.op = "read" /\ f.pc = "commit"
        /\ db' = UpdateRow(db, g)
        /\ IF UpdateMatches(db, g)
           THEN /\ frames' = [frames EXCEPT ![s].pc = "mint_url"]
                /\ UNCHANGED hist
           ELSE Reply(s, [f EXCEPT !.detail = "StaleDataError"], 500, None)
        /\ UNCHANGED <<bucket, issued, grants, now>>

(* storage.generate_presigned_url and the GistResponse *)
ReadMintUrl(s, ok) ==
    LET f == [frames[s] EXCEPT !.s3 = Some(ok)]
        g == f.gist[1]
    IN  /\ f.op = "read" /\ f.pc = "mint_url"
        /\ Reply(s, f, 200, GistResponse(g, generate_presigned_url(g.gist_id, ok)))
        /\ UNCHANGED <<db, bucket, issued, grants, now>>

(* ------------- delete_gist, from DELETE and from the 410 paths -------- *)
(* the select of delete_gist; no row: api_delete_gist answers 404, and     *)
(* api_get_gist raises its 410 all the same                                *)
DeleteSelectIn(s, f) ==
    LET gist == get_gist(db, f.gist_id) IN
    /\ IF gist = None
       THEN IF f.op = "delete"
            THEN Reply(s, [f EXCEPT !.detail = "Gist not found"], DeleteStatus(None), None)
            ELSE Reply(s, f, 410, None)
       ELSE /\ frames' = [frames EXCEPT ![s] = [f EXCEPT !.pc = "del_commit", !.gist = gist]]
            /\ UNCHANGED hist
    /\ UNCHANGED <<db, bucket, issued, grants, now>>

DeleteRequest(s, id, limit) ==
    /\ Accepts(s, limit)
    /\ DeleteSelectIn(s, Frame("delete", "del_select", id, None, "", None))

ReadDeleteSelect(s) ==
    /\ frames[s].op = "read" /\ frames[s].pc = "del_select"
    /\ DeleteSelectIn(s, frames[s])

(* await db.delete(gist); await db.commit() *)
DeleteCommit(s) ==
    /\ frames[s].pc = "del_commit"
    /\ db' = DeleteRow(db, frames[s].gist_id)
    /\ frames' = [frames EXCEPT ![s].pc = "del_blob"]
    /\ UNCHANGED <<bucket, issued, grants, now, hist>>

(* storage.delete(str(gist.gist_id)), then the handler's answer *)
DeleteBlob(s, ok) ==
    LET f == [frames[s] EXCEPT !.s3 = Some(ok)]
        gist == DeleteGistResult(f.gist, ok)
    IN  /\ f.pc = "del_blob"
        /\ bucket' = StorageDelete(bucket, f.gist_id, ok)
        /\ IF f.op = "delete"
           THEN Reply(s, [f EXCEPT !.detail = IF gist = None THEN "Gist not found" ELSE ""],
                      DeleteStatus(gist), None)
           ELSE Reply(s, f, 410, None)
        /\ UNCHANGED <<db, issued, grants, now>>

(* ------------------------------ clock --------------------------------- *)
Tick ==
    /\ now < MaxTime
    /\ now' = now + 1
    /\ UNCHANGED <<db, bucket, issued, grants, frames, hist>>

(* A client addresses a gist_id a 201 returned to it, or one that matches  *)
(* no record (uuid4 values are not guessed).                               *)
Step(limit) ==
    \/ \E s \in Slots, payload \in GistCreate : CreateInsert(s, payload, limit)
    \/ \E s \in Slots, ok \in BOOLEAN : CreateMintPost(s, ok)
    \/ \E id \in Ids : Upload(id)
    \/ \E s \in Slots, id \in grants \cup {Unknown} : ReadSelect(s, id, limit)
    \/ \E s \in Slots : ReadCheck(s)
    \/ \E s \in Slots : ReadCommit(s)
    \/ \E s \in Slots, ok \in BOOLEAN : ReadMintUrl(s, ok)
    \/ \E s \in Slots, id \in grants \cup {Unknown} : DeleteRequest(s, id, limit)
    \/ \E s \in Slots : ReadDeleteSelect(s)
    \/ \E s \in Slots : DeleteCommit(s)
    \/ \E s \in Slots, ok \in BOOLEAN : DeleteBlob(s, ok)
    \/ Tick

(* requests arrive at any time: up to MaxInflight handlers interleave *)
Next == Step(MaxReq)

Spec == Init /\ [][Next]_vars

(* a client that awaits each response before its next request (the tests) *)
Accepted == Answered + Cardinality(InFlight)

OneAtATime == Accepted' > Accepted => InFlight = {}

SeqNext == Step(MaxSeqReq) /\ OneAtATime

SeqSpec == Init /\ [][SeqNext]_vars

(* Requests without end.  hist is the observer's log of the responses, no  *)
(* state of the program: clearing it lets a run go on for ever over        *)
(* finitely many states, with at most MaxLog requests answered or in       *)
(* flight between two clearings.                                           *)
ClearLog ==
    /\ hist # [k \in Keys |-> <<>>]
    /\ hist' = [k \in Keys |-> <<>>]
    /\ UNCHANGED <<db, bucket, issued, grants, now, frames>>

(* one gist, created once, then read and deleted at will *)
LiveCreate ==
    [gist_metadata : {[iv |-> "a"]}, expiration_date : {NoDate, NaiveDate(0)},
     max_reads : 1..MaxReadsBound]

LiveNext ==
    \/ \E s \in Slots, payload \in LiveCreate :
          issued = {} /\ CreateInsert(s, payload, MaxLog)
    \/ \E s \in Slots, ok \in BOOLEAN : CreateMintPost(s, ok)
    \/ \E id \in Ids : Upload(id)
    \/ \E s \in Slots, id \in grants : ReadSelect(s, id, MaxLog)
    \/ \E s \in Slots : ReadCheck(s)
    \/ \E s \in Slots : ReadCommit(s)
    \/ \E s \in Slots, ok \in BOOLEAN : ReadMintUrl(s, ok)
    \/ \E s \in Slots, id \in grants : DeleteRequest(s, id, MaxLog)
    \/ \E s \in Slots : ReadDeleteSelect(s)
    \/ \E s \in Slots : DeleteCommit(s)
    \/ \E s \in Slots, ok \in BOOLEAN : DeleteBlob(s, ok)
    \/ Tick
    \/ ClearLog

(* a handler that was started is resumed by the event loop until it has    *)
(* answered: each await returns                                            *)
Resume(s) ==
    \/ \E ok \in BOOLEAN : CreateMintPost(s, ok)
    \/ ReadCheck(s)
    \/ ReadCommit(s)
    \/ \E ok \in BOOLEAN : ReadMintUrl(s, ok)
    \/ ReadDeleteSelect(s)
    \/ DeleteCommit(s)
    \/ \E ok \in BOOLEAN : DeleteBlob(s, ok)

LiveSpec ==
    /\ Init
    /\ [][LiveNext]_vars
    /\ \A s \in Slots : WF_vars(Resume(s))

(* ======================= properties of the lifecycle =================== *)
ReadsOf(h) == SelectSeq(h, LAMBDA e : e.op = "read")

DeletesOf(h) == SelectSeq(h, LAMBDA e : e.op = "delete")

Served(seq) == {i \in DOMAIN seq : seq[i].status = 200}

(* hist[id] of a gist a 201 returned begins with that create response,     *)
(* whose frame holds the record as it was inserted                         *)
Created(id) == hist[id][1].gist[1]

Handling(id) == {s \in Slots : frames[s] # Idle /\ frames[s].gist_id = id}

(* C1: a gist with max_reads = N and no expiration_date, read N+1 times in *)
(* strict sequence (each request awaited, no delete): the k-th read, k<=N, *)
(* answers 200 with read_count = k, and the (N+1)-th answers 410.          *)
C1_SequentialReads ==
    \A id \in grants :
        LET h == hist[id]
            rs == ReadsOf(h)
            N == Created(id).max_reads
        IN  (Created(id).expiration_date = None /\ DeletesOf(h) = <<>>)
            => \A k \in DOMAIN rs :
                 /\ k <= N => (rs[k].status = 200 /\ rs[k].body[1].read_count = k)
                 /\ k = N + 1 => rs[k].status = 410

C1_Witness ==
    \E id \in grants :
        LET rs == ReadsOf(hist[id]) IN
        /\ Created(id).expiration_date = None
        /\ Created(id).max_reads = 2
        /\ DeletesOf(hist[id]) = <<>>
        /\ Len(rs) = 3
        /\ rs[1].body[1].read_count = 1
        /\ rs[2].body[1].read_count = 2
        /\ rs[3].status = 410

(* C2: however the reads of one gist interleave, at most max_reads of them *)
(* answer 200; and once max_reads + K reads have all been answered (no     *)
(* delete request), exactly max_reads answered 200 and the K others 410.   *)
C2_ConcurrentReadsWithinBudget ==
    \A id \in grants :
        LET h == hist[id]
            rs == ReadsOf(h)
            N == Created(id).max_reads
        IN  /\ Cardinality(Served(rs)) <= N
            /\ (/\ Created(id).expiration_date = None
                /\ Handling(id) = {} /\ DeletesOf(h) = <<>> /\ Len(rs) >= N)
               => /\ Cardinality(Served(rs)) = N
                  /\ \A i \in DOMAIN rs \ Served(rs) : rs[i].status = 410

(* C3: a read whose expiration check finds expiration_date earlier than    *)
(* the clock goes to the deletion path without touching the table, the     *)
(* steps it takes from there only remove rows (read_count is never         *)
(* written), and it answers 410 with no body, so with no download_url;     *)
(* this for every max_reads and read_count.  A gist created already        *)
(* expired never has a read answered 200: while no delete request targets  *)
(* it, each read of it answers 410, or 404 once another read of it has     *)
(* taken that path and removed the row.                                    *)
PastDate(g, clock) ==
    /\ g.expiration_date # None
    /\ g.expiration_date[1] < clock

DeletionPath == {"del_select", "del_commit", "del_blob"}

C3_ExpiredCheckStep ==
    \A s \in Slots :
        (/\ frames[s].op = "read" /\ frames[s].pc = "check"
         /\ PastDate(frames[s].gist[1], now)
         /\ frames'[s] # frames[s])
        => /\ frames'[s].pc = "del_select"
           /\ frames'[s].detail = "Gist expired"
           /\ frames'[s].gist = frames[s].gist
           /\ db' = db

C3_ExpiredPathStep ==
    \A s \in Slots :
        (frames[s].detail = "Gist expired" /\ frames'[s] # frames[s])
        => /\ \A id \in DOMAIN db' : id \in DOMAIN db /\ db'[id] = db[id]
           /\ frames'[s] = Idle \/ frames'[s].pc \in DeletionPath

C3_ExpiredAnswers ==
    /\ \A s \in Slots :
          frames[s].detail = "Gist expired" => frames[s].pc \in DeletionPath
    /\ \A id \in grants :
          LET h == hist[id]
              rs == ReadsOf(h)
          IN  /\ \A i \in DOMAIN h :
                    h[i].detail = "Gist expired"
                    => h[i].status = 410 /\ h[i].body = None
              /\ PastDate(Created(id), Created(id).created_at)
                 => /\ Served(rs) = {}
                    /\ (DeletesOf(h) = <<>>
                          /\ \A s \in Handling(id) : frames[s].op # "delete")
                       => \A i \in DOMAIN rs :
                            \/ rs[i].status = 410
                            \/ /\ rs[i].status = 404
                               /\ \/ \E j \in DOMAIN rs : rs[j].status = 410
                                  \/ \E s \in Handling(id) : frames[s].pc = "del_blob"

(* C3, as one formula: the answers, and the steps of an expired read *)
C3_ExpiredIsGone ==
    /\ []C3_ExpiredAnswers
    /\ [][C3_ExpiredCheckStep /\ C3_ExpiredPathStep]_vars

(* a gist read once, then expired with read budget left: the read is a 410 *)
C3_Witness ==
    \E id \in grants :
        LET rs == ReadsOf(hist[id]) IN
        /\ Len(rs) = 2
        /\ rs[1].status = 200
        /\ rs[2].status = 410 /\ rs[2].detail = "Gist expired"
        /\ rs[2].gist[1].read_count < rs[2].gist[1].max_reads

(* C4: a gist is destroyed when its row is removed.  A delete answered 204 *)
(* or a read answered 410 leaves no row; a removed row never comes back;   *)
(* and a read that starts while the row is gone answers 404 at once.       *)
Destroys(e) ==
    \/ e.op = "delete" /\ e.status = 204
    \/ e.op = "read" /\ e.status = 410

Last(seq) == seq[Len(seq)]

C4_DestroyedHasNoRow ==
    \A id \in grants :
        (\E i \in DOMAIN hist[id] : Destroys(hist[id][i])) => id \notin DOMAIN db

C4_StaysDestroyed ==
    \A id \in issued :
        id \notin DOMAIN db
        => /\ id \notin DOMAIN db'
           /\ \A s \in Slots :
                 (frames[s] = Idle /\ frames'[s] # Idle /\ frames'[s].gist_id = id)
                 => frames'[s].op # "read"
           /\ (frames' = frames /\ hist'[id] # hist[id] /\ Last(hist'[id]).op = "read")
              => Last(hist'[id]).status = 404

(* C4, as one formula: destroyed gists have no row, and stay so *)
C4_NoResurrection == []C4_DestroyedHasNoRow /\ [][C4_StaysDestroyed]_vars

C4_Witness ==
    \E id \in grants :
        LET h == hist[id] IN
        /\ id \notin DOMAIN db
        /\ \E i, j \in DOMAIN h :
              /\ i < j
              /\ h[i].op = "read" /\ h[i].status = 410
              /\ h[j].op = "read" /\ h[j].status = 404

(* C5: the read_count of a 200 read response is at most the max_reads the  *)
(* gist was created with, whatever requests ran and however they           *)
(* interleaved.                                                            *)
C5_ReadCountWithinMax ==
    \A id \in grants :
        \A i \in DOMAIN hist[id] :
            LET e == hist[id][i] IN
            (e.op = "read" /\ e.status = 200)
            => /\ e.body[1].read_count <= Created(id).max_reads
               /\ e.body[1].max_reads = Created(id).max_reads

(* two interleaved reads of a gist with one read left, both answered 200 *)
C5_Witness ==
    \E id \in grants :
        LET rs == ReadsOf(hist[id]) IN
        /\ Len(rs) = 2
        /\ \A i \in {1, 2} :
              /\ rs[i].status = 200
              /\ rs[i].body[1].read_count = Created(id).max_reads

(* C6: with requests handled one at a time, a delete answers 204 exactly   *)
(* when nothing before it destroyed the gist, and then the row is gone; a  *)
(* delete of an id with no row (unknown, or deleted before) answers 404    *)
(* and leaves the table and the bucket as they were.                       *)
C6_DeleteAnswers ==
    /\ \A i \in DOMAIN hist[Unknown] :
          hist[Unknown][i].op = "delete" => hist[Unknown][i].status = 404
    /\ \A id \in grants :
          LET h == hist[id] IN
          \A i \in DOMAIN h :
              h[i].op = "delete"
              => /\ h[i].status \in {204, 404}
                 /\ h[i].status = 204 <=> (\A j \in 1..(i - 1) : ~Destroys(h[j]))
                 /\ id \notin DOMAIN db

C6_NotFoundChangesNothing ==
    \A id \in Keys :
        (/\ Len(hist'[id]) = Len(hist[id]) + 1
         /\ Last(hist'[id]).op = "delete"
         /\ Last(hist'[id]).status = 404)
        => db' = db /\ bucket' = bucket

(* C6, as one formula: the answers of delete, and the effect of its 404 *)
C6_Delete == []C6_DeleteAnswers /\ [][C6_NotFoundChangesNothing]_vars

C6_Witness ==
    \E id \in grants :
        LET ds == DeletesOf(hist[id]) IN
        /\ Len(ds) = 2
        /\ ds[1].status = 204
        /\ ds[2].status = 404
        /\ \E i \in DOMAIN hist[Unknown] :
              hist[Unknown][i].op = "delete" /\ hist[Unknown][i].status = 404

(* C7: every object in the bucket has its row in the table, unless a       *)
(* deletion of that gist has removed the row and not yet called            *)
(* storage.delete.                                                         *)
C7_NoOrphanedBlob ==
    \A id \in bucket :
        \/ id \in DOMAIN db
        \/ \E s \in Handling(id) : frames[s].pc = "del_blob"

(* C8: when storage.delete fails inside delete_gist, the row is removed    *)
(* all the same and stays removed, and the caller gets the usual answer:   *)
(* 204 from DELETE, 410 from the read that found the gist expired or       *)
(* exhausted.                                                              *)
C8_BlobDeleteFailureSwallowed ==
    \A id \in grants :
        \A i \in DOMAIN hist[id] :
            LET e == hist[id][i] IN
            /\ (e.op = "delete" /\ e.s3 = Some(FALSE))
               => e.status = 204 /\ id \notin DOMAIN db
            /\ (e.op = "read" /\ e.s3 = Some(FALSE) /\ e.detail # "")
               => e.status = 410 /\ id \notin DOMAIN db

C8_Witness ==
    \E id \in grants :
        /\ id \in bucket
        /\ \E i \in DOMAIN hist[id] :
              /\ hist[id][i].op = "delete"
              /\ hist[id][i].s3 = Some(FALSE)
              /\ hist[id][i].status = 204

(* C9: a create whose presigned POST could not be generated answers 500    *)
(* with no body and its gist_id is handed to nobody; a 201 always carries  *)
(* the gist_id and its upload_params.                                      *)
C9_NoGrantNoCreated ==
    \A id \in Keys :
        \A i \in DOMAIN hist[id] :
            LET e == hist[id][i] IN
            e.op = "create"
            => /\ e.s3 = Some(FALSE)
                  => e.status = 500 /\ e.body = None /\ id \notin grants
               /\ e.status = 201
                  => /\ e.body # None
                     /\ e.body[1].gist_id = id
                     /\ e.body[1].upload_params # None

C9_Witness ==
    \E id \in issued :
        /\ hist[id] # <<>>
        /\ hist[id][1].op = "create"
        /\ hist[id][1].s3 = Some(FALSE)
        /\ hist[id][1].status = 500

(* C10: after a create answered 500 because the presigned POST could not   *)
(* be generated, the table holds no row created by that request.           *)
C10_FailedCreateLeavesNoRecord ==
    \A id \in issued :
        \A i \in DOMAIN hist[id] :
            LET e == hist[id][i] IN
            (e.op = "create" /\ e.status = 500 /\ e.s3 = Some(FALSE))
            => id \notin DOMAIN db

(* C11: a read whose presigned GET URL could not be generated answers 500, *)
(* and every read answered 200 carries a download_url.                     *)
C11_ServedReadHasDownloadUrl ==
    \A id \in grants :
        \A i \in DOMAIN hist[id] :
            LET e == hist[id][i] IN
            e.op = "read"
            => /\ (e.s3 = Some(FALSE) /\ e.detail = "") => e.status = 500
               /\ e.status = 200 => e.body[1].download_url # None

(* C12: the row a create inserts loads back with the gist_metadata of the  *)
(* request body, the row keeps it for as long as it exists, and every read *)
(* answered 200 returns it, whatever else was requested in between, on     *)
(* this gist or on another.                                                *)
C12_MetadataRoundTrip ==
    /\ \A s \in Slots :
          (frames[s].op = "create" /\ frames[s].pc = "mint_post")
          => /\ frames[s].gist[1].gist_metadata = frames[s].req[1].gist_metadata
             /\ get_gist(db, frames[s].gist_id) = frames[s].gist
    /\ \A id \in grants :
          /\ id \in DOMAIN db
             => get_gist(db, id)[1].gist_metadata = Created(id).gist_metadata
          /\ \A i \in DOMAIN hist[id] :
                LET e == hist[id][i] IN
                (e.op = "read" /\ e.status = 200)
                => e.body[1].gist_metadata = Created(id).gist_metadata

(* two gists with different documents, one of them read back *)
C12_Witness ==
    \E id, other \in grants :
        /\ Created(id).gist_metadata = [iv |-> "b", salt |-> "c"]
        /\ Created(other).gist_metadata = [iv |-> "a"]
        /\ \E i \in DOMAIN hist[id] :
              /\ hist[id][i].op = "read" /\ hist[id][i].status = 200
              /\ hist[id][i].body[1].gist_metadata = [iv |-> "b", salt |-> "c"]

(* C13: a create whose expiration_date does not parse answers 400, inserts *)
(* no row and hands out no presigned POST.                                 *)
C13_BadDateIsValidationError ==
    \A i \in DOMAIN hist[Unknown] :
        LET e == hist[Unknown][i] IN
        (e.op = "create" /\ e.detail = "ValueError")
        => e.status = 400 /\ e.gist = None /\ e.s3 = None

(* C14: the gist_id of a create is one no earlier create was given, live   *)
(* or destroyed: nothing was ever answered for it and no other request in  *)
(* flight holds it; the create response is the first entry of its history  *)
(* and the only create in it.  The record starts with read_count = 0, so   *)
(* every read answered 200 reports at least 1, and the first read of the   *)
(* gist to commit reports exactly 1.                                       *)
C14_FreshIdAndZeroCount ==
    /\ \A s \in Slots :
          (frames[s].op = "create" /\ frames[s].pc = "mint_post")
          => /\ hist[frames[s].gist_id] = <<>>
             /\ \A t \in Slots \ {s} : frames[t].gist_id # frames[s].gist_id
             /\ frames[s].gist[1].gist_id = frames[s].gist_id
             /\ frames[s].gist[1].read_count = 0
    /\ \A id \in Ids :
          \A i \in DOMAIN hist[id] :
              hist[id][i].op = "create"
              => /\ i = 1
                 /\ hist[id][i].gist[1].read_count = 0
                 /\ hist[id][i].status = 201 => hist[id][i].body[1].gist_id = id
    /\ \A id \in grants :
          LET rs == ReadsOf(hist[id]) IN
          /\ \A i \in Served(rs) : rs[i].body[1].read_count >= 1
          /\ Served(rs) # {}
             => \/ \E i \in Served(rs) : rs[i].body[1].read_count = 1
                \/ \E s \in Handling(id) :
                      /\ frames[s].pc = "mint_url"
                      /\ frames[s].gist[1].read_count = 1

(* two gists created side by side, and the first read of the second *)
C14_Witness ==
    /\ grants = {1, 2}
    /\ hist[1][1].status = 201 /\ hist[1][1].body[1].gist_id = 1
    /\ hist[2][1].status = 201 /\ hist[2][1].body[1].gist_id = 2
    /\ Len(hist[2]) = 2
    /\ hist[2][2].op = "read" /\ hist[2][2].status = 200
    /\ hist[2][2].body[1].read_count = 1

(* the reads of a gist that have succeeded: answered 200, or committed and *)
(* about to be answered 200                                                *)
Succeeded(id) ==
    Cardinality(Served(ReadsOf(hist[id])))
    + Cardinality({s \in Handling(id) : frames[s].pc = "mint_url"})

(* C15: while its row exists, the stored read_count of a gist equals the   *)
(* number of reads of it that have succeeded so far, however the reads     *)
(* interleave.                                                             *)
C15_StoredCountIsSuccessfulReads ==
    \A id \in grants :
        id \in DOMAIN db => db[id].read_count = Succeeded(id)

(* C16: a read is turned away as expired only when the gist has an         *)
(* expiration_date and that date is strictly earlier than the clock.  A    *)
(* read that finds no expiration_date, or one equal to the clock or later, *)
(* goes on to the read-count check, and is served when read_count <        *)
(* max_reads.                                                              *)
C16_ExpiredOnlyIfPast ==
    /\ \A s \in Slots :
          frames[s].detail = "Gist expired"
          => PastDate(frames[s].gist[1], now)
    /\ \A id \in grants :
          \A i \in DOMAIN hist[id] :
              hist[id][i].detail = "Gist expired"
              => PastDate(Created(id), now)

C16_NotPastIsServed ==
    \A s \in Slots :
        (/\ frames[s].op = "read" /\ frames[s].pc = "check"
         /\ ~PastDate(frames[s].gist[1], now)
         /\ frames'[s] # frames[s])
        => /\ frames'[s].detail # "Gist expired"
           /\ frames[s].gist[1].read_count < frames[s].gist[1].max_reads
              => /\ frames'[s].pc = "commit"
                 /\ frames'[s].gist[1].read_count = frames[s].gist[1].read_count + 1

(* C16, as one formula: who is answered "Gist expired", and the check step *)
C16_StrictOptionalExpiry == []C16_ExpiredOnlyIfPast /\ [][C16_NotPastIsServed]_vars

(* a gist read at the very instant of its expiration_date: served *)
C16_Witness ==
    \E id \in grants :
        /\ Created(id).expiration_date = Some(now)
        /\ \E i \in DOMAIN hist[id] :
              hist[id][i].op = "read" /\ hist[id][i].status = 200

(* C17: delete_gist calls storage.delete only once the removal of the row  *)
(* is committed: a handler about to delete the blob, a step that takes an  *)
(* object out of the bucket, and a deletion that has made its storage call *)
(* all find no row for that gist_id, and none appears afterwards; this for *)
(* every interleaving of reads and deletes.                                *)
BlobDeleteIssued(e) ==
    /\ e.s3 # None
    /\ e.op = "delete" \/ (e.op = "read" /\ e.detail # "")

C17_NoRowOnceBlobDeleteIssued ==
    /\ \A s \in Slots :
          frames[s].pc = "del_blob" => frames[s].gist_id \notin DOMAIN db
    /\ \A id \in grants :
          (\E i \in DOMAIN hist[id] : BlobDeleteIssued(hist[id][i]))
          => id \notin DOMAIN db

C17_BlobDeleteStep ==
    \A id \in bucket \ bucket' :
        /\ id \notin DOMAIN db
        /\ db' = db
        /\ \E s \in Slots : frames[s].pc = "del_blob" /\ frames[s].gist_id = id

(* C17, as one formula *)
C17_BlobDeletedAfterRow == []C17_NoRowOnceBlobDeleteIssued /\ [][C17_BlobDeleteStep]_vars

(* a delete that removed row and blob while a read of the gist was between *)
(* its select and its commit                                               *)
C17_Witness ==
    \E id \in grants :
        /\ id \notin bucket
        /\ \E i, j \in DOMAIN hist[id] :
              /\ hist[id][i].op = "delete" /\ hist[id][i].s3 = Some(TRUE)
              /\ hist[id][j].op = "read" /\ hist[id][j].detail = "StaleDataError"

(* C18: the stored expiration_date is the instant the request's string     *)
(* denotes: a string with an offset is stored as its wall-clock reading    *)
(* minus the offset, a string without one as its reading, so two strings   *)
(* with different offsets and the same instant give equal stored values;   *)
(* and whether a read finds the gist expired depends on the stored value   *)
(* and the clock alone.                                                    *)
Instant(d) == IF d.kind = "aware" THEN d.t - d.off ELSE d.t

Creating == {s \in Slots : frames[s].op = "create" /\ frames[s].pc = "mint_post"}

C18_StoredIsInstant ==
    /\ \A s \in Creating :
          LET d == frames[s].req[1].expiration_date
              stored == db[frames[s].gist_id].expiration_date
          IN  /\ stored = frames[s].gist[1].expiration_date
              /\ d.kind = "none" => stored = None
              /\ d.kind = "naive" => stored = Some(d.t)
              /\ d.kind = "aware" => stored = Some(Instant(d))
    /\ \A s, t \in Creating :
          LET d == frames[s].req[1].expiration_date
              e == frames[t].req[1].expiration_date
          IN  (d.kind # "none" /\ e.kind # "none" /\ Instant(d) = Instant(e))
              => db[frames[s].gist_id].expiration_date
                 = db[frames[t].gist_id].expiration_date
    /\ \A id \in grants :
          id \in DOMAIN db => db[id].expiration_date = Created(id).expiration_date

C18_OutcomeByInstant ==
    \A s \in Slots :
        (frames[s].op = "read" /\ frames[s].pc = "check" /\ frames'[s] # frames[s])
        => LET stored == Created(frames[s].gist_id).expiration_date IN
           /\ frames[s].gist[1].expiration_date = stored
           /\ frames'[s].detail = "Gist expired"
              <=> (stored # None /\ stored[1] < now)

(* C18, as one formula *)
C18_OffsetsNormalised == []C18_StoredIsInstant /\ [][C18_OutcomeByInstant]_vars

(* two creates in flight, one instant written with two different offsets *)
C18_Witness ==
    \E s, t \in Creating :
        /\ frames[s].req[1].expiration_date = AwareDate(0, 0)
        /\ frames[t].req[1].expiration_date = AwareDate(1, 1)
        /\ db[frames[s].gist_id].expiration_date = Some(0)
        /\ db[frames[t].gist_id].expiration_date = Some(0)

(* C19: a step changes the row or the object of a gist_id only on behalf   *)
(* of a request for that gist_id (or of the client's upload of that        *)
(* object); a step that answers 404 to a read or a delete changes neither  *)
(* table nor bucket; and a row that stays in the table changes in          *)
(* read_count only, so a live row is the row as created but for            *)
(* read_count.                                                             *)
RowChanged(id) ==
    \/ (id \in DOMAIN db) # (id \in DOMAIN db')
    \/ id \in DOMAIN db /\ id \in DOMAIN db' /\ db'[id] # db[id]

BlobChanged(id) == (id \in bucket) # (id \in bucket')

ActsOn(id) ==
    \E s \in Slots :
        /\ frames'[s] # frames[s]
        /\ frames[s].gist_id = id \/ frames'[s].gist_id = id

C19_FrameStep ==
    /\ \A id \in Ids :
          /\ RowChanged(id) => ActsOn(id)
          /\ BlobChanged(id)
             => \/ ActsOn(id)
                \/ frames' = frames /\ id \in grants /\ bucket' = bucket \cup {id}
          /\ (id \in DOMAIN db /\ id \in DOMAIN db')
             => db'[id] = [db[id] EXCEPT !.read_count = db'[id].read_count]
    /\ \A id \in Keys :
          (/\ Len(hist'[id]) = Len(hist[id]) + 1
           /\ Last(hist'[id]).op \in {"read", "delete"}
           /\ Last(hist'[id]).status = 404)
          => db' = db /\ bucket' = bucket

C19_LiveRowAsCreated ==
    \A id \in grants :
        id \in DOMAIN db
        => get_gist(db, id)[1]
           = [Created(id) EXCEPT !.read_count = db[id].read_count]

(* C19, as one formula *)
C19_Frame == []C19_LiveRowAsCreated /\ [][C19_FrameStep]_vars

(* two live gists, one of them read: the other row is as it was created *)
C19_Witness ==
    /\ grants = {1, 2}
    /\ DOMAIN db = {1, 2}
    /\ db[1].read_count = 1
    /\ \E i \in DOMAIN hist[1] : hist[1][i].op = "read" /\ hist[1][i].status = 200
    /\ get_gist(db, 2)[1] = Created(2)
    /\ Created(1).gist_metadata # Created(2).gist_metadata

(* the steps that accept a read of a gist, and that answer one with 200 *)
ReadRequested(id) == \E s \in Slots : ReadSelect(s, id, MaxLog)

ReadServed(id) ==
    \E s \in Slots :
        /\ frames[s].op = "read" /\ frames[s].pc = "mint_url"
        /\ frames[s].gist_id = id
        /\ frames'[s] = Idle

(* C20: when every started handler runs to its answer, a gist whose reads  *)
(* keep being requested ends up with its row deleted for good; and no      *)
(* gist is served (answered 200) infinitely often.                         *)
C20_LazyDestruction ==
    \A id \in Ids :
        /\ []<><<ReadRequested(id)>>_vars => <>[](id \notin DOMAIN db)
        /\ <>[][~ReadServed(id)]_vars

(* a gist served max_reads times, whose next read removed the row *)
C20_Witness ==
    \E id \in grants :
        /\ id \notin DOMAIN db
        /\ Len(hist[id]) = 2
        /\ hist[id][1].op = "read" /\ hist[id][1].status = 200
        /\ hist[id][1].body[1].read_count = hist[id][1].body[1].max_reads
        /\ hist[id][2].op = "read" /\ hist[id][2].status = 410
        /\ hist[id][2].detail = "Read limit exceeded"

====
